---- MODULE Spec2Model ----
(***************************************************************************)
(* Hotkey-triggered capture-and-dispatch pipeline of the AI assistant      *)
(* (ai_assistant.py = "gui", ai_assistant_final.py = "final",              *)
(* ai_assistant_minimal.py = "minimal").                                   *)
(*                                                                         *)
(* Texts are sequences of one-character strings; " " is the whitespace     *)
(* character.  The specifications:                                         *)
(*   Spec         the concurrent pipeline: hotkey thread (Ctrl+F9),        *)
(*                console thread, worker threads, the is_processing flag,  *)
(*                the OS clipboard;                                        *)
(*   SpecBind     the pipeline with the Ctrl+Shift+A binding as well;      *)
(*   SpecHotkeys  the hotkey thread with both bindings, no console input;  *)
(*   SpecOrder    the pipeline with the worker's backend call and its      *)
(*                presenter call as separate steps;                        *)
(*   SpecDegraded main() after a failed start_hotkey_listener: console     *)
(*                commands only;                                           *)
(*   SpecThread   the hotkey thread, with a failing start of the worker    *)
(*                thread as a further step;                                *)
(*   SpecConsole  main()'s command loop with its "test" command;           *)
(*   SpecTest     test_hotkeys.py (SpecTestFair: its main thread is        *)
(*                scheduled);                                              *)
(*   SpecStartup  the pipeline of ai_assistant_final.py together with the  *)
(*                session of its start-up self-test;                       *)
(*   SpecClip     ClipboardManager alone, driven by every combination of   *)
(*                backend outcomes;                                        *)
(*   SpecShow     the result presenter alone;                              *)
(*   SpecListener HotkeyManager's start and stop calls alone.              *)
(***************************************************************************)
EXTENDS Naturals, Sequences, FiniteSets

VARIABLES
    variant,        \* which implementation runs: "gui", "final", "minimal"
    platform,       \* sys.platform: "darwin", "win32", anything else = "linux"
    hasController,  \* HotkeyManager.keyboard_controller is set / present
    clipboard,      \* the OS clipboard content
    copyPending,    \* a synthesized Ctrl+C has been injected, the OS has not yet acted on it
    is_processing,  \* AIAssistant.is_processing
    pending,        \* key events detected by the listener, not yet handled
    thread,         \* the threads that call process_text: "hotkey" (listener callback
                    \* or Linux monitor thread) and "main" (console command loop)
    cap,            \* the hotkey thread's current (or last) selection capture
    req,            \* one record per trigger (hotkey event or console command)
    nextTrig,       \* number of triggers so far
    lastClip,       \* SpecClip: outcome of the last ClipboardManager call
    lastShow,       \* SpecShow: outcome of the last presenter call
    selftest,       \* SpecStartup: the session of test_functionality's own AIAssistant
    lsn,            \* SpecListener: HotkeyManager's listener state
    order,          \* SpecOrder: sessions in the order their backend calls completed
                    \* and in the order their results were handed to the presenter
    hktest          \* SpecTest: the run of test_hotkeys.py

vars ==
    <<variant, platform, hasController, clipboard, copyPending, is_processing,
      pending, thread, cap, req, nextTrig, lastClip, lastShow, selftest, lsn, order,
      hktest>>

\* the pipeline's own variables
pipeline ==
    <<clipboard, copyPending, is_processing, pending, thread, cap, req, nextTrig>>

\* the variables that the pipeline's own steps leave alone
side ==
    <<lastClip, lastShow, selftest, lsn, order, hktest>>

(***************************************************************************)
(* Bounds                                                                  *)
(***************************************************************************)
MaxTriggers ==
    2

MaxPending ==
    2

MaxLen ==
    2

MaxStarts ==
    2

(***************************************************************************)
(* Texts                                                                   *)
(***************************************************************************)
Chars ==
    {"a", "b", " "}

RECURSIVE SeqsUpTo(_)
SeqsUpTo(n) ==
    IF n = 0 THEN {<<>>}
    ELSE LET prev == SeqsUpTo(n - 1)
         IN prev \cup {Append(s, c) : s \in {p \in prev : Len(p) = n - 1}, c \in Chars}

\* texts the clipboard-only specification ranges over
ClipTexts ==
    SeqsUpTo(MaxLen)

\* texts the pipeline specification ranges over: empty, whitespace-only, two words
Texts ==
    {<<>>, <<" ">>, <<"a">>, <<"b">>}

\* a value no text equals: "not read" / "not computed"
None ==
    <<"?">>

RECURSIVE LStrip(_)
LStrip(s) ==
    IF s # <<>> /\ Head(s) = " " THEN LStrip(Tail(s)) ELSE s

RECURSIVE RStrip(_)
RStrip(s) ==
    IF s # <<>> /\ s[Len(s)] = " " THEN RStrip(SubSeq(s, 1, Len(s) - 1)) ELSE s

\* str.strip()
Strip(s) ==
    RStrip(LStrip(s))

\* truthiness of text.strip()
NonBlank(s) ==
    Strip(s) # <<>>

(***************************************************************************)
(* ClipboardManager                                                        *)
(*   env.lib  : pyperclip   "ok" | "raises" | "missing" (import failed)    *)
(*   env.cmd1 : pbpaste/pbcopy, powershell/clip, xclip                     *)
(*   env.cmd2 : xsel                                                       *)
(*              "ok" | "missing" (FileNotFoundError) | "raises" (any other *)
(*              exception) | "exit_fail" (non-zero exit, nothing on stdout)*)
(***************************************************************************)
Variants ==
    {"gui", "final", "minimal"}

Platforms ==
    {"darwin", "win32", "linux"}

CmdOutcomes ==
    {"ok", "missing", "raises", "exit_fail"}

\* ai_assistant.py imports pyperclip unconditionally; the minimal variant never uses it
LibOutcomes(v) ==
    IF v = "final" THEN {"ok", "raises", "missing"}
    ELSE IF v = "gui" THEN {"ok", "raises"}
    ELSE {"missing"}

\* the gui variant runs no OS command; xsel is run on Linux only
ClipEnvs(v, plat) ==
    [lib : LibOutcomes(v),
     cmd1 : IF v = "gui" THEN {"missing"} ELSE CmdOutcomes,
     cmd2 : IF v # "gui" /\ plat = "linux" THEN CmdOutcomes ELSE {"missing"}]

\* stdout of a paste command / effect of a copy command, by its outcome
CmdStdout(outcome, clip) ==
    IF outcome = "ok" THEN clip ELSE <<>>

\* the exception a subprocess call raises, by its outcome
CmdExc(outcome) ==
    IF outcome = "missing" THEN "FileNotFoundError"
    ELSE IF outcome = "raises" THEN "Exception"
    ELSE "none"

\* body of the "system-specific commands" try block of get_clipboard_text
OsReadBody(plat, env, clip) ==
    IF plat = "darwin" THEN
        [value |-> CmdStdout(env.cmd1, clip), tried |-> <<"pbpaste">>, exc |-> CmdExc(env.cmd1)]
    ELSE IF plat = "win32" THEN
        [value |-> Strip(CmdStdout(env.cmd1, clip)), tried |-> <<"powershell">>,
         exc |-> CmdExc(env.cmd1)]
    ELSE IF env.cmd1 # "missing" THEN
        [value |-> CmdStdout(env.cmd1, clip), tried |-> <<"xclip">>, exc |-> CmdExc(env.cmd1)]
    ELSE IF env.cmd2 # "missing" THEN
        [value |-> CmdStdout(env.cmd2, clip), tried |-> <<"xclip", "xsel">>,
         exc |-> CmdExc(env.cmd2)]
    ELSE
        [value |-> <<>>, tried |-> <<"xclip", "xsel">>, exc |-> "none"]

\* the same block without its "except Exception" clause
OsReadNoExcept(plat, env, clip) ==
    LET b == OsReadBody(plat, env, clip)
    IN [value |-> IF b.exc = "none" THEN b.value ELSE None,
        tried |-> b.tried, raised |-> b.exc # "none"]

\* the try block with its "except Exception: return ''"
OsRead(plat, env, clip) ==
    LET b == OsReadBody(plat, env, clip)
    IN [value |-> IF b.exc = "none" THEN b.value ELSE <<>>,
        tried |-> b.tried, raised |-> FALSE]

\* ClipboardManager.get_clipboard_text
GetClipboardText(v, plat, env, clip) ==
    IF v = "gui" THEN
        IF env.lib = "ok" THEN [value |-> clip, tried |-> <<"pyperclip">>, raised |-> FALSE]
        ELSE [value |-> <<>>, tried |-> <<"pyperclip">>, raised |-> FALSE]
    ELSE IF v = "final" /\ env.lib = "ok" THEN
        [value |-> clip, tried |-> <<"pyperclip">>, raised |-> FALSE]
    ELSE
        LET os == OsRead(plat, env, clip)
            pre == IF v = "final" /\ env.lib = "raises" THEN <<"pyperclip">> ELSE <<>>
        IN [value |-> os.value, tried |-> pre \o os.tried, raised |-> os.raised]

\* body of the "system-specific commands" try block of set_clipboard_text
OsWriteBody(plat, env) ==
    IF plat = "darwin" THEN
        [ok |-> env.cmd1 = "ok", tried |-> <<"pbcopy">>, exc |-> CmdExc(env.cmd1)]
    ELSE IF plat = "win32" THEN
        \* Popen(['clip'], shell=True): a missing command is a non-zero exit of the shell
        [ok |-> env.cmd1 = "ok", tried |-> <<"clip">>,
         exc |-> IF env.cmd1 = "raises" THEN "Exception" ELSE "none"]
    ELSE IF env.cmd1 # "missing" THEN
        [ok |-> env.cmd1 = "ok", tried |-> <<"xclip">>, exc |-> CmdExc(env.cmd1)]
    ELSE IF env.cmd2 # "missing" THEN
        [ok |-> env.cmd2 = "ok", tried |-> <<"xclip", "xsel">>, exc |-> CmdExc(env.cmd2)]
    ELSE
        [ok |-> FALSE, tried |-> <<"xclip", "xsel">>, exc |-> "none"]

\* the try block with its "except Exception: return False"
OsWrite(plat, env) ==
    LET b == OsWriteBody(plat, env)
    IN [ok |-> b.exc = "none" /\ b.ok, tried |-> b.tried, raised |-> FALSE]

\* ClipboardManager.set_clipboard_text: the record also carries the clipboard afterwards
SetClipboardText(v, plat, env, text, clip) ==
    LET r == IF v = "gui" THEN
                 [ok |-> env.lib = "ok", tried |-> <<"pyperclip">>, raised |-> FALSE]
             ELSE IF v = "final" /\ env.lib = "ok" THEN
                 [ok |-> TRUE, tried |-> <<"pyperclip">>, raised |-> FALSE]
             ELSE
                 LET os == OsWrite(plat, env)
                     pre == IF v = "final" /\ env.lib = "raises" THEN <<"pyperclip">> ELSE <<>>
                 IN [ok |-> os.ok, tried |-> pre \o os.tried, raised |-> os.raised]
    IN [ok |-> r.ok, tried |-> r.tried, raised |-> r.raised,
        clip |-> IF r.ok THEN text ELSE clip]

(***************************************************************************)
(* Selection capture and dispatch: pure parts                              *)
(***************************************************************************)
\* the resolution with the unchanged clipboard treated as "nothing copied"
ResolveSelectionChangedOnly(v, before, after) ==
    IF after # before /\ after # <<>> THEN after ELSE <<>>

\* handle_ctrl_f9: the text chosen once both clipboard reads are done
ResolveSelection(v, before, after) ==
    IF v = "final" THEN (IF after # <<>> THEN after ELSE before)
    ELSE after

\* the dispatch test with truthiness only, no strip()
ShouldDispatchNoStrip(v, selected) ==
    selected # <<>>

\* handle_ctrl_f9 / handle_quick_assist: "if selected_text.strip():"
ShouldDispatch(v, selected) ==
    NonBlank(selected)

\* process_text_async with a failure of the backend swallowed: nothing is returned
ProcessTextAsyncSwallow(text, backend) ==
    IF ~NonBlank(text) THEN [kind |-> "no_text", of |-> <<>>]
    ELSE IF backend = "ok" THEN [kind |-> "response", of |-> text]
    ELSE [kind |-> "none", of |-> <<>>]

\* process_text_async without its "if not text.strip()" test
ProcessTextAsyncNoBlankTest(text, backend) ==
    IF backend = "ok" THEN [kind |-> "response", of |-> text]
    ELSE [kind |-> "backend_error", of |-> <<>>]

\* process_text_async: the returned string, by the backend's behaviour
ProcessTextAsync(text, backend) ==
    IF ~NonBlank(text) THEN [kind |-> "no_text", of |-> <<>>]
    ELSE IF backend = "ok" THEN [kind |-> "response", of |-> text]
    ELSE [kind |-> "backend_error", of |-> <<>>]

\* the message run_async builds in its except clause
WorkerError ==
    [kind |-> "worker_error", of |-> <<>>]

NoResult ==
    [kind |-> "none", of |-> <<>>]

\* run_async with the presenter called again in the finally clause
RunAsyncShownTwice(loopOk, result) ==
    IF loopOk THEN <<result, result>> ELSE <<WorkerError>>

\* run_async: the arguments of its show_response / response_ready.emit calls, in order
RunAsyncShown(loopOk, result) ==
    IF loopOk THEN <<result>> ELSE <<WorkerError>>

\* run_async: the local name loop after "loop = asyncio.new_event_loop()"
RunAsyncLoop(loopOk) ==
    IF loopOk THEN "open" ELSE "unbound"

\* run_async: "loop.close()" in the finally clause raises (UnboundLocalError)
\* when the assignment to loop never happened; nothing catches it
RunAsyncCloseRaises(loop) ==
    loop = "unbound"

\* run_async: is_processing after its finally clause
RunAsyncFinally(flag, shown) ==
    FALSE

\* process_text: the value the caller gets back.  Both the early "return" and
\* the end of the function body give None.
ProcessTextReturn(v, accepted) ==
    "None"

\* a rejected request kept for later
RejectedQueued(v, r) ==
    [r EXCEPT !.outcome = "rejected", !.wpc = "running"]

\* process_text: the early return taken when is_processing is set
Rejected(v, r) ==
    [r EXCEPT !.outcome = "rejected",
              !.notice = IF v = "final" THEN "busy" ELSE r.notice]

(***************************************************************************)
(* State                                                                   *)
(***************************************************************************)
Trigs ==
    1..MaxTriggers

Threads ==
    {"hotkey", "main"}

NoReq ==
    [src |-> "none", burstOf |-> 0, text |-> None, outcome |-> "pending", notice |-> "none",
     wpc |-> "none", result |-> NoResult, shown |-> <<>>, ret |-> "unset",
     loop |-> "unbound", escaped |-> FALSE, read |-> None]

\* synth: "none" not attempted yet, "ok", "unavailable" (no controller), "raised"
NoCap ==
    [trig |-> 0, before |-> None, synth |-> "none", after |-> None, resolved |-> None,
     events |-> <<>>]

NoClip ==
    [op |-> "none", env |-> [lib |-> "ok", cmd1 |-> "missing", cmd2 |-> "missing"],
     value |-> <<>>, ok |-> FALSE, tried |-> <<>>, raised |-> FALSE, text |-> <<>>,
     written |-> None]

IdleThread ==
    [pc |-> "idle", cur |-> 0]

\* no backend call has completed
\* test_hotkeys.py before main() is called.  main: where main() is;
\* listener: the GlobalHotKeys context; f9, esc: calls of on_ctrl_f9 and
\* on_escape so far; end: how main() ended; out: the lines printed
NoTest ==
    [main |-> "start", listener |-> "none", f9 |-> 0, esc |-> 0,
     end |-> "none", out |-> <<>>]

NoOrder ==
    [completed |-> <<>>, presented |-> <<>>]

\* no presenter call is being looked at
NoShow ==
    [op |-> "none", env |-> [gui32 |-> "missing", cmd |-> "ok", popup |-> "ok"], n |-> 0,
     delivered |-> FALSE, console |-> <<>>, raised |-> FALSE,
     handed |-> [chars |-> 0, ellipsis |-> FALSE]]

\* no self-test session: test_functionality's assistant does not exist (any more)
NoSelfTest ==
    [wpc |-> "none", is_processing |-> FALSE]

\* no start_hotkey_listener / stop_hotkey_listener call has been made
NoCall ==
    [op |-> "none", was |-> "Stopped", ok |-> FALSE, ret |-> "None", reported |-> FALSE]

\* HotkeyManager.__init__: is_running = False, hotkeys = None (final, gui; the
\* minimal variant has no such attribute yet).  The gui variant has no
\* is_running attribute: the field stays False there and means nothing.
\*   pynput   : whether "import pynput" works in this process
\*   hotkeys  : the GlobalHotKeys object self.hotkeys refers to:
\*              "none" | "unstarted" | "started" | "stopped"
\*   active   : GlobalHotKeys listeners started and not stopped
\*   monitors : Linux monitor threads running (minimal variant)
\*   starts   : start_hotkey_listener calls made
\*   invoked  : a bound handler has been invoked since the last call returned
\*   last     : the last call and what it did
NoListener ==
    [pynput |-> "ok", is_running |-> FALSE, hotkeys |-> "none", active |-> 0,
     monitors |-> 0, starts |-> 0, invoked |-> FALSE, last |-> NoCall]

\* the variants and platforms in which each combination can occur:
\* final sets keyboard_controller before the listener starts, gui in __init__;
\* the minimal variant has none when it runs its Linux monitor thread
ControllerChoices(v, plat) ==
    IF v = "minimal" /\ plat = "linux" THEN BOOLEAN ELSE {TRUE}

InitCommon ==
    /\ variant \in Variants
    /\ hasController \in ControllerChoices(variant, platform)
    /\ copyPending = FALSE
    /\ is_processing = FALSE
    /\ pending = <<>>
    /\ thread = [t \in Threads |-> IdleThread]
    /\ cap = NoCap
    /\ req = [i \in Trigs |-> NoReq]
    /\ nextTrig = 0
    /\ lastClip = NoClip
    /\ lastShow = NoShow
    /\ order = NoOrder
    /\ hktest = NoTest

\* The pipeline sees the platform only through get_clipboard_text, and every
\* value that call can return over Texts on macOS or Windows (the clipboard
\* content, its stripped form, the empty text) it can also return on Linux, so
\* the pipeline is explored on Linux, where the monitor thread also exists.
Init ==
    /\ selftest = NoSelfTest
    /\ lsn = NoListener
    /\ platform = "linux"
    /\ InitCommon
    /\ clipboard \in Texts

config ==
    <<variant, platform, hasController>>

\* the clipboard text a handler obtains from get_clipboard_text under some backend outcomes
Reads ==
    {GetClipboardText(variant, platform, env, clipboard).value : env \in ClipEnvs(variant, platform)}


(***************************************************************************)
(* Hotkey thread                                                           *)
(***************************************************************************)
Last(q) ==
    q[Len(q)]

\* the listener (or the monitor thread's script) detects Ctrl+F9.
\* burstOf names the earlier trigger this one follows closely: one whose
\* handler has not yet got past its initial 0.1 s sleep.
KeyEvent(b) ==
    /\ nextTrig < MaxTriggers
    /\ Len(pending) < MaxPending
    /\ LET i == nextTrig + 1
           prev == IF pending # <<>> THEN Last(pending) ELSE 0
       IN /\ req' = [req EXCEPT ![i] = [NoReq EXCEPT !.src = b, !.burstOf = prev]]
          /\ pending' = Append(pending, i)
          /\ nextTrig' = i
    /\ UNCHANGED <<config, clipboard, copyPending, is_processing, thread, cap, side>>

\* handle_ctrl_f9 starts (callbacks run one at a time on the hotkey thread):
\* sleep(0.1); original_clipboard = get_clipboard_text()
ReadBefore ==
    /\ thread["hotkey"].pc = "idle"
    /\ pending # <<>>
    /\ req[Head(pending)].src = "ctrl_f9"
    /\ \E b \in Reads :
         cap' = [NoCap EXCEPT !.trig = Head(pending), !.before = b, !.events = <<"read">>]
    /\ thread' = [thread EXCEPT !["hotkey"] = [pc |-> "synth", cur |-> Head(pending)]]
    /\ pending' = Tail(pending)
    /\ UNCHANGED <<config, clipboard, copyPending, is_processing, req, nextTrig, side>>

\* the end of a capture: dispatch the selected text or show the "no text" notice
Decide(c) ==
    LET i == c.trig
    IN IF ShouldDispatch(variant, c.resolved)
       THEN /\ req' = [req EXCEPT ![i].text = c.resolved]
            /\ thread' = [thread EXCEPT !["hotkey"].pc = "pt_check"]
       ELSE /\ req' = [req EXCEPT ![i] = [@ EXCEPT !.outcome = "nothing",
                                                   !.notice = "nothing"]]
            /\ thread' = [thread EXCEPT !["hotkey"] = IdleThread]

\* the four calls on keyboard_controller, in program order
CopyChord ==
    <<"press_ctrl", "press_c", "release_c", "release_ctrl">>

\* the whole capture: first read, the chord, the wait, second read
CaptureSteps ==
    <<"read">> \o CopyChord \o <<"sleep", "read">>

SynthEventsReleaseFirst(failAt) ==
    IF failAt = 0
    THEN <<"press_ctrl", "press_c", "release_ctrl", "release_c", "sleep">>
    ELSE SubSeq(<<"press_ctrl", "press_c", "release_ctrl", "release_c">>, 1, failAt - 1)

\* what the synthesis step performs: the calls before the one that raises,
\* or all four and time.sleep
SynthEvents(failAt) ==
    IF failAt = 0
    THEN CopyChord \o <<"sleep">>
    ELSE SubSeq(CopyChord, 1, failAt - 1)

\* handle_ctrl_f9: press ctrl, press c, release c, release ctrl.
\* failAt = 0: all four calls return; failAt = k: the k-th call raises.
SynthCopy(failAt) ==
    /\ thread["hotkey"].pc = "synth"
    /\ IF ~hasController
       THEN /\ failAt = 0
            /\ cap' = [cap EXCEPT !.synth = "unavailable", !.resolved = cap.before]
            /\ Decide(cap')
            /\ UNCHANGED copyPending
       ELSE /\ copyPending' = (copyPending \/ failAt = 0 \/ failAt >= 3)
            /\ IF failAt = 0
               THEN /\ cap' = [cap EXCEPT !.synth = "ok",
                                           !.events = @ \o SynthEvents(failAt)]
                    /\ thread' = [thread EXCEPT !["hotkey"].pc = "read_after"]
                    /\ UNCHANGED req
               ELSE IF variant = "gui"
               THEN \* no inner try: the outer except shows an error popup
                    /\ cap' = [cap EXCEPT !.synth = "raised",
                                           !.events = @ \o SynthEvents(failAt)]
                    /\ req' = [req EXCEPT ![cap.trig] = [@ EXCEPT !.outcome = "error",
                                                                  !.notice = "error"]]
                    /\ thread' = [thread EXCEPT !["hotkey"] = IdleThread]
               ELSE /\ cap' = [cap EXCEPT !.synth = "raised", !.resolved = cap.before,
                                           !.events = @ \o SynthEvents(failAt)]
                    /\ Decide(cap')
    /\ UNCHANGED <<config, clipboard, is_processing, pending, nextTrig, side>>

\* the focused application acts on the injected Ctrl+C: a non-empty selection
\* replaces the clipboard content
OsCopy(sel) ==
    /\ copyPending
    /\ copyPending' = FALSE
    /\ clipboard' = IF sel = <<>> THEN clipboard ELSE sel
    /\ UNCHANGED <<config, is_processing, pending, thread, cap, req, nextTrig, side>>

\* handle_ctrl_f9: sleep; new_clipboard = get_clipboard_text(); choose; dispatch or notify
ReadAfter ==
    /\ thread["hotkey"].pc = "read_after"
    /\ \E a \in Reads :
         cap' = [cap EXCEPT !.after = a,
                            !.resolved = ResolveSelection(variant, cap.before, a),
                            !.events = Append(@, "read")]
    /\ Decide(cap')
    /\ UNCHANGED <<config, clipboard, copyPending, is_processing, pending, nextTrig, side>>

QuickTextBare(c) ==
    c

\* f"Quick analysis: {clipboard_text}"; "Q" stands for the prefix
QuickText(c) ==
    <<"Q">> \o c

\* handle_quick_assist, up to its call of process_text: read the clipboard and
\* dispatch it with the prefix, or show the "clipboard is empty" notice
QuickRead ==
    /\ thread["hotkey"].pc = "idle"
    /\ pending # <<>>
    /\ req[Head(pending)].src = "quick"
    /\ LET i == Head(pending)
       IN \E c \in Reads :
            IF ShouldDispatch(variant, c)
            THEN /\ req' = [req EXCEPT ![i] = [@ EXCEPT !.read = c, !.text = QuickText(c)]]
                 /\ thread' = [thread EXCEPT !["hotkey"] = [pc |-> "pt_check", cur |-> i]]
            ELSE /\ req' = [req EXCEPT ![i] = [@ EXCEPT !.read = c,
                                                        !.outcome = "nothing",
                                                        !.notice = "clipboard_empty"]]
                 /\ thread' = thread
    /\ pending' = Tail(pending)
    /\ UNCHANGED <<config, clipboard, copyPending, is_processing, cap, nextTrig, side>>

(***************************************************************************)
(* Main thread: the console command loop (final and minimal variants)      *)
(***************************************************************************)
\* "process <text>": the input is stripped, so <text> is never blank
ConsoleProcess(t) ==
    /\ variant # "gui"
    /\ thread["main"].pc = "idle"
    /\ nextTrig < MaxTriggers
    /\ NonBlank(t)
    /\ LET i == nextTrig + 1
       IN /\ req' = [req EXCEPT ![i] = [NoReq EXCEPT !.src = "console", !.text = t]]
          /\ thread' = [thread EXCEPT !["main"] = [pc |-> "pt_check", cur |-> i]]
          /\ nextTrig' = i
    /\ UNCHANGED <<config, clipboard, copyPending, is_processing, pending, cap, side>>

(***************************************************************************)
(* AIAssistant.process_text and its worker thread                          *)
(***************************************************************************)
\* the guard with a rejecting branch that resets the flag before returning
PtCheckResets(t) ==
    /\ thread[t].pc = "pt_check"
    /\ LET i == thread[t].cur
       IN IF is_processing
          THEN /\ req' = [req EXCEPT ![i] = [Rejected(variant, req[i]) EXCEPT
                                                 !.ret = ProcessTextReturn(variant, FALSE)]]
               /\ thread' = [thread EXCEPT ![t] = IdleThread]
               /\ is_processing' = FALSE
          ELSE /\ thread' = [thread EXCEPT ![t].pc = "pt_admit"]
               /\ UNCHANGED <<req, is_processing>>
    /\ UNCHANGED <<config, clipboard, copyPending, pending, cap, nextTrig, side>>

\* "if self.is_processing: ... return"
PtCheck(t) ==
    /\ thread[t].pc = "pt_check"
    /\ LET i == thread[t].cur
       IN IF is_processing
          THEN /\ req' = [req EXCEPT ![i] = [Rejected(variant, req[i]) EXCEPT
                                                 !.ret = ProcessTextReturn(variant, FALSE)]]
               /\ thread' = [thread EXCEPT ![t] = IdleThread]
          ELSE /\ thread' = [thread EXCEPT ![t].pc = "pt_admit"]
               /\ UNCHANGED req
    /\ UNCHANGED <<config, clipboard, copyPending, is_processing, pending, cap, nextTrig,
                   side>>

\* process_text running the backend call itself (run_async() instead of
\* thread.start()): the caller stays inside the call
PtAdmitInline(t) ==
    /\ thread[t].pc = "pt_admit"
    /\ is_processing' = TRUE
    /\ req' = [req EXCEPT ![thread[t].cur] = [@ EXCEPT !.outcome = "admitted",
                                                       !.wpc = "running"]]
    /\ thread' = [thread EXCEPT ![t].pc = "pt_wait"]
    /\ UNCHANGED <<config, clipboard, copyPending, pending, cap, nextTrig, side>>

\* "self.is_processing = True" ... "thread.start()"
PtAdmit(t) ==
    /\ thread[t].pc = "pt_admit"
    /\ is_processing' = TRUE
    /\ req' = [req EXCEPT ![thread[t].cur] = [@ EXCEPT !.outcome = "admitted",
                                                       !.wpc = "running",
                                                       !.ret = ProcessTextReturn(variant, TRUE)]]
    /\ thread' = [thread EXCEPT ![t] = IdleThread]
    /\ UNCHANGED <<config, clipboard, copyPending, pending, cap, nextTrig, side>>

\* run_async up to its finally clause: the event loop, the backend call, the presenter
WorkerRun(i, loopOk, backend) ==
    /\ req[i].wpc = "running"
    /\ LET result == IF loopOk THEN ProcessTextAsync(req[i].text, backend) ELSE NoResult
       IN req' = [req EXCEPT ![i] = [@ EXCEPT !.wpc = "presented", !.result = result,
                                               !.loop = RunAsyncLoop(loopOk),
                                               !.shown = @ \o RunAsyncShown(loopOk, result)]]
    /\ UNCHANGED <<config, clipboard, copyPending, is_processing, pending, thread, cap,
                   nextTrig, side>>

\* run_async: "finally: self.is_processing = False"
WorkerFinally(i) ==
    /\ req[i].wpc = "presented"
    /\ is_processing' = RunAsyncFinally(is_processing, req[i].shown)
    /\ req' = [req EXCEPT ![i] = [@ EXCEPT !.wpc = "done",
                                            !.escaped = RunAsyncCloseRaises(req[i].loop),
                                            !.loop = IF @ = "open" THEN "closed" ELSE @]]
    /\ UNCHANGED <<config, clipboard, copyPending, pending, thread, cap, nextTrig, side>>

Next ==
    \/ KeyEvent("ctrl_f9")
    \/ ReadBefore
    \/ \E k \in 0..4 : SynthCopy(k)
    \/ \E sel \in Texts : OsCopy(sel)
    \/ ReadAfter
    \/ \E t \in Texts : ConsoleProcess(t)
    \/ \E t \in Threads : PtCheck(t)
    \/ \E t \in Threads : PtAdmit(t)
    \/ \E i \in Trigs, loopOk \in BOOLEAN, backend \in {"ok", "fails"} :
         WorkerRun(i, loopOk, backend)
    \/ \E i \in Trigs : WorkerFinally(i)

Spec ==
    Init /\ [][Next]_vars


\* the pipeline with both hotkey bindings: Ctrl+F9 and Ctrl+Shift+A
NextBind ==
    \/ Next
    \/ KeyEvent("quick")
    \/ QuickRead

SpecBind ==
    Init /\ [][NextBind]_vars

\* the hotkey thread alone: both bindings, their handlers and the sessions
\* they start, with no command typed at the console
NextHotkeys ==
    \/ KeyEvent("ctrl_f9")
    \/ KeyEvent("quick")
    \/ ReadBefore
    \/ \E k \in 0..4 : SynthCopy(k)
    \/ \E sel \in Texts : OsCopy(sel)
    \/ ReadAfter
    \/ QuickRead
    \/ PtCheck("hotkey")
    \/ PtAdmit("hotkey")
    \/ \E i \in Trigs, loopOk \in BOOLEAN, backend \in {"ok", "fails"} :
         WorkerRun(i, loopOk, backend)
    \/ \E i \in Trigs : WorkerFinally(i)

SpecHotkeys ==
    Init /\ [][NextHotkeys]_vars

\* process_text: "self.is_processing = True", then threading.Thread(...) or
\* thread.start() raises (RuntimeError: can't start new thread).  No worker
\* runs; the exception reaches the handler's except clause, which logs it
\* (handle_ctrl_f9 also shows it)
PtStartFails ==
    /\ thread["hotkey"].pc = "pt_admit"
    /\ is_processing' = TRUE
    /\ LET i == thread["hotkey"].cur
       IN req' = [req EXCEPT ![i] = [@ EXCEPT
                     !.outcome = "error",
                     !.notice = IF req[i].src = "quick" THEN "none" ELSE "error"]]
    /\ thread' = [thread EXCEPT !["hotkey"] = IdleThread]
    /\ UNCHANGED <<config, clipboard, copyPending, pending, cap, nextTrig, side>>

NextThread ==
    \/ NextHotkeys
    \/ PtStartFails

SpecThread ==
    Init /\ [][NextThread]_vars

(***************************************************************************)
(* The pipeline with run_async in two steps: the backend call completes,   *)
(* then the result is handed to the presenter (show_response is called, or *)
(* in the gui variant response_ready is emitted).                          *)
(***************************************************************************)
\* run_async: "result = loop.run_until_complete(self.process_text_async(text))"
WorkerBackend(i, loopOk, backend) ==
    /\ req[i].wpc = "running"
    /\ LET result == IF loopOk THEN ProcessTextAsync(req[i].text, backend) ELSE NoResult
       IN req' = [req EXCEPT ![i] = [@ EXCEPT !.wpc = "responded", !.result = result,
                                               !.loop = RunAsyncLoop(loopOk)]]
    /\ order' = [order EXCEPT !.completed = Append(@, i)]
    /\ UNCHANGED <<config, clipboard, copyPending, is_processing, pending, thread, cap,
                   nextTrig, lastClip, lastShow, selftest, lsn, hktest>>

\* run_async: "self.show_response(result)", or the same call in the except clause
WorkerPresent(i) ==
    /\ req[i].wpc = "responded"
    /\ req' = [req EXCEPT ![i] = [@ EXCEPT
                  !.wpc = "presented",
                  !.shown = @ \o RunAsyncShown(req[i].result # NoResult, req[i].result)]]
    /\ order' = [order EXCEPT !.presented = Append(@, i)]
    /\ UNCHANGED <<config, clipboard, copyPending, is_processing, pending, thread, cap,
                   nextTrig, lastClip, lastShow, selftest, lsn, hktest>>

NextOrder ==
    \/ KeyEvent("ctrl_f9")
    \/ ReadBefore
    \/ \E k \in 0..4 : SynthCopy(k)
    \/ \E sel \in Texts : OsCopy(sel)
    \/ ReadAfter
    \/ \E t \in Texts : ConsoleProcess(t)
    \/ \E t \in Threads : PtCheck(t)
    \/ \E t \in Threads : PtAdmit(t)
    \/ \E i \in Trigs, loopOk \in BOOLEAN, backend \in {"ok", "fails"} :
         WorkerBackend(i, loopOk, backend)
    \/ \E i \in Trigs : WorkerPresent(i)
    \/ \E i \in Trigs : WorkerFinally(i)

SpecOrder ==
    Init /\ [][NextOrder]_vars

(***************************************************************************)
(* Start-up of ai_assistant_final.py: main() first runs test_functionality, *)
(* which creates an AIAssistant of its own, submits a test message to it,  *)
(* sleeps two seconds and returns; main() then creates the assistant the   *)
(* hotkeys and the console use.  Nothing joins the self-test's worker, and  *)
(* its show_response blocks for as long as the notifier does (a message    *)
(* box stays until it is dismissed), so the worker can be at any point     *)
(* when the pipeline starts.                                               *)
(***************************************************************************)
\* the self-test's process_text on its fresh assistant: always admitted
SelfTestAdmitted ==
    [wpc |-> "running", is_processing |-> TRUE]

InitStartup ==
    /\ selftest = SelfTestAdmitted
    /\ lsn = NoListener
    /\ platform \in Platforms
    /\ InitCommon
    /\ variant = "final"
    /\ clipboard \in Texts

\* the self-test's run_async up to its finally clause
SelfTestRun ==
    /\ selftest.wpc = "running"
    /\ selftest' = [selftest EXCEPT !.wpc = "presented"]
    /\ UNCHANGED <<config, pipeline, order, hktest, lastClip, lastShow, lsn>>

\* the self-test's run_async: "finally: self.is_processing = False", on its own assistant
SelfTestFinally ==
    /\ selftest.wpc = "presented"
    /\ selftest' = [wpc |-> "done",
                    is_processing |-> RunAsyncFinally(selftest.is_processing, <<>>)]
    /\ UNCHANGED <<config, pipeline, order, hktest, lastClip, lastShow, lsn>>

NextStartup ==
    \/ Next
    \/ SelfTestRun
    \/ SelfTestFinally

SpecStartup ==
    InitStartup /\ [][NextStartup]_vars

(***************************************************************************)
(* ClipboardManager on its own                                             *)
(***************************************************************************)
InitClip ==
    /\ selftest = NoSelfTest
    /\ lsn = NoListener
    /\ platform \in Platforms
    /\ InitCommon
    /\ clipboard \in ClipTexts

\* one call of get_clipboard_text
ClipRead(env) ==
    /\ lastClip.op = "none"
    /\ LET r == GetClipboardText(variant, platform, env, clipboard)
       IN lastClip' = [op |-> "read", env |-> env, value |-> r.value, ok |-> FALSE,
                       tried |-> r.tried, raised |-> r.raised, text |-> <<>>,
                       written |-> lastClip.written]
    /\ UNCHANGED <<config, clipboard, copyPending, is_processing, pending, thread, cap, req,
                   nextTrig, lastShow, selftest, lsn, order, hktest>>

\* one call of set_clipboard_text
ClipWrite(text, env) ==
    /\ lastClip.op = "none"
    /\ LET r == SetClipboardText(variant, platform, env, text, clipboard)
       IN /\ lastClip' = [op |-> "write", env |-> env, value |-> <<>>, ok |-> r.ok,
                          tried |-> r.tried, raised |-> r.raised, text |-> text,
                          written |-> IF r.ok THEN text ELSE lastClip.written]
          /\ clipboard' = r.clip
    /\ UNCHANGED <<config, copyPending, is_processing, pending, thread, cap, req, nextTrig, lastShow, selftest, lsn, order, hktest>>

\* the caller has taken the result; the next call can be made
ClipDone ==
    /\ lastClip.op # "none"
    /\ lastClip' = [NoClip EXCEPT !.written = lastClip.written]
    /\ UNCHANGED <<config, clipboard, copyPending, is_processing, pending, thread, cap, req,
                   nextTrig, lastShow, selftest, lsn, order, hktest>>

NextClip ==
    \/ \E env \in ClipEnvs(variant, platform) : ClipRead(env)
    \/ \E text \in ClipTexts, env \in ClipEnvs(variant, platform) : ClipWrite(text, env)
    \/ ClipDone

SpecClip ==
    InitClip /\ [][NextClip]_vars

(***************************************************************************)
(* Result presenter: NotificationManager.show_notification and             *)
(* AIAssistant.show_response.  A response is known by its length n in      *)
(* characters; a console line is a record of the call that wrote it and    *)
(* the number of characters of the response it carries.                    *)
(*   env.cmd   : osascript / powershell / notify-send, as CmdOutcomes       *)
(*   env.gui32 : win32gui.MessageBox  "ok" | "missing" (ImportError) |      *)
(*               "raises"                                                   *)
(*   env.popup : PopupWindow(...).show()  "ok" | "raises"                   *)
(***************************************************************************)
NotifyLimit ==
    200

NotifyKeep ==
    197

LogKeep ==
    50

Lengths ==
    {1, 50, 51, 197, 200, 201, 250}

Min(a, b) ==
    IF a < b THEN a ELSE b

ShowEnvs(v, plat) ==
    [gui32 : IF v = "final" /\ plat = "win32" THEN {"ok", "missing", "raises"} ELSE {"missing"},
     cmd : IF v = "gui" THEN {"ok"} ELSE CmdOutcomes,
     popup : IF v = "gui" THEN {"ok", "raises"} ELSE {"ok"}]

PrintLine(chars) ==
    [call |-> "print", chars |-> chars]

LogLine(chars) ==
    [call |-> "logger", chars |-> chars]

\* subprocess.run([...]) without check: only a failure to run the command raises
RunNotifier(outcome) ==
    [delivered |-> outcome = "ok", console |-> <<>>, exc |-> CmdExc(outcome)]

\* body of show_notification's outer try block; m = characters of the message
NotifyBody(v, plat, env, m) ==
    IF plat = "darwin" THEN RunNotifier(env.cmd)
    ELSE IF plat = "win32" THEN
        IF v = "final" /\ env.gui32 # "missing"
        THEN [delivered |-> env.gui32 = "ok", console |-> <<>>,
              exc |-> IF env.gui32 = "ok" THEN "none" ELSE "Exception"]
        ELSE RunNotifier(env.cmd)
    ELSE IF env.cmd = "missing"
        THEN [delivered |-> FALSE, console |-> <<PrintLine(m)>>, exc |-> "none"]
        ELSE RunNotifier(env.cmd)

\* NotificationManager.show_notification
ShowNotification(v, plat, env, m) ==
    LET b == NotifyBody(v, plat, env, m)
    IN [delivered |-> b.delivered,
        console |-> IF b.exc = "none" THEN b.console
                    ELSE b.console \o <<LogLine(0), PrintLine(m)>>,
        raised |-> FALSE]

\* show_response: "if len(response) > 200: display_response = response[:197] + '...'"
DisplayChars(v, n) ==
    IF v = "final" /\ n > NotifyLimit THEN NotifyKeep ELSE n

\* the text handed to the notification channel (to PopupWindow in the gui
\* variant): the characters of the response it keeps, and whether "..." follows
Display(v, n) ==
    [chars |-> DisplayChars(v, n), ellipsis |-> DisplayChars(v, n) < n]

\* len(display_response)
DisplayLen(d) ==
    d.chars + (IF d.ellipsis THEN 3 ELSE 0)

\* AIAssistant.show_response
ShowResponse(v, plat, env, n) ==
    IF v = "gui" THEN
        \* popup.show(); on an exception logger.error names the exception only
        [delivered |-> env.popup = "ok",
         console |-> IF env.popup = "ok" THEN <<>> ELSE <<LogLine(0)>>,
         raised |-> FALSE, handed |-> Display(v, n)]
    ELSE
        LET sn == ShowNotification(v, plat, env, DisplayChars(v, n))
            logged == <<LogLine(Min(n, LogKeep))>>
            printed == IF v = "final" THEN <<PrintLine(n)>> ELSE <<>>
        IN IF sn.raised
           THEN [delivered |-> sn.delivered, console |-> sn.console \o <<LogLine(0)>>,
                 raised |-> FALSE, handed |-> Display(v, n)]
           ELSE [delivered |-> sn.delivered, console |-> sn.console \o logged \o printed,
                 raised |-> FALSE, handed |-> Display(v, n)]

InitShow ==
    /\ selftest = NoSelfTest
    /\ lsn = NoListener
    /\ platform \in Platforms
    /\ InitCommon
    /\ clipboard = <<>>

\* one call of show_response with a response of n characters
Show(n, env) ==
    /\ lastShow.op = "none"
    /\ LET r == ShowResponse(variant, platform, env, n)
       IN lastShow' = [op |-> "show", env |-> env, n |-> n, delivered |-> r.delivered,
                       console |-> r.console, raised |-> r.raised, handed |-> r.handed]
    /\ UNCHANGED <<config, pipeline, order, hktest, lastClip, selftest, lsn>>

\* show_response has returned
ShowDone ==
    /\ lastShow.op # "none"
    /\ lastShow' = NoShow
    /\ UNCHANGED <<config, pipeline, order, hktest, lastClip, selftest, lsn>>

NextShow ==
    \/ \E n \in Lengths, env \in ShowEnvs(variant, platform) : Show(n, env)
    \/ ShowDone

SpecShow ==
    InitShow /\ [][NextShow]_vars

(***************************************************************************)
(* HotkeyManager: start_hotkey_listener and stop_hotkey_listener.          *)
(*   fail      : the call of the try block that raises: "controller"       *)
(*               (KeyboardController()), "construct" (GlobalHotKeys(...)), *)
(*               "start" (hotkeys.start()), or "none"                      *)
(*   monitorOk : the minimal variant's Linux monitor thread stays alive    *)
(*               (its script is running) rather than ending in its except  *)
(*               clause at once                                            *)
(* GlobalHotKeys.stop() is taken not to raise.                             *)
(***************************************************************************)
PynputChoices(v) ==
    IF v = "gui" THEN {"ok"} ELSE {"ok", "missing"}

StartFailures(v) ==
    IF v = "gui" THEN {"none", "construct", "start"}
    ELSE {"none", "controller", "construct", "start"}

\* a listening context exists: a started GlobalHotKeys listener or a monitor thread
HookActive(l) ==
    l.active + l.monitors > 0

ListenerState(l) ==
    IF HookActive(l) \/ l.is_running THEN "Running" ELSE "Stopped"

\* what start_hotkey_listener returns: final returns a bool, the others nothing
StartReturn(v, ok) ==
    IF v # "final" THEN "None" ELSE IF ok THEN "True" ELSE "False"

\* a failed start that says nothing: "except Exception: pass"
StartFailedSilent(v, l) ==
    [op |-> "start", was |-> ListenerState(l), ok |-> FALSE, ret |-> StartReturn(v, FALSE),
     reported |-> FALSE]

\* the outcome of a start call that ended in an except clause or an early return
StartFailed(v, l) ==
    [op |-> "start", was |-> ListenerState(l), ok |-> FALSE, ret |-> StartReturn(v, FALSE),
     reported |-> TRUE]

\* the try block with pynput importable
StartPynput(v, l, fail) ==
    IF fail \in {"controller", "construct"} THEN
        [l EXCEPT !.last = StartFailed(v, l)]
    ELSE IF fail = "start" THEN
        [l EXCEPT !.hotkeys = "unstarted", !.last = StartFailed(v, l)]
    ELSE
        [l EXCEPT !.hotkeys = "started",
                  !.active = @ + 1,
                  !.is_running = IF v = "gui" THEN @ ELSE TRUE,
                  !.last = [op |-> "start", was |-> ListenerState(l), ok |-> TRUE,
                            ret |-> StartReturn(v, TRUE), reported |-> FALSE]]

\* minimal variant, "except ImportError": start_system_hotkey_listener.
\* The monitor thread is started and is_running is not touched.
StartSystemHotkeyListener(plat, l, monitorOk) ==
    IF plat = "linux" /\ monitorOk THEN
        [l EXCEPT !.monitors = @ + 1,
                  !.last = [op |-> "start", was |-> ListenerState(l), ok |-> TRUE,
                            ret |-> "None", reported |-> TRUE]]
    ELSE
        [l EXCEPT !.last = StartFailed("minimal", l)]

\* HotkeyManager.start_hotkey_listener
StartHotkeyListener(v, plat, l, fail, monitorOk) ==
    LET r == IF l.pynput = "ok" THEN StartPynput(v, l, fail)
             ELSE IF v = "minimal" THEN StartSystemHotkeyListener(plat, l, monitorOk)
             ELSE [l EXCEPT !.last = StartFailed(v, l)]
    IN [r EXCEPT !.starts = @ + 1, !.invoked = FALSE]

\* stop_hotkey_listener calling self.hotkeys.stop() without the "if self.hotkeys"
\* test: with no listener object the call raises and the except clause logs it
StopHotkeyListenerUnguarded(v, l) ==
    IF l.hotkeys = "none" THEN
        [l EXCEPT !.invoked = FALSE,
                  !.last = [op |-> "stop", was |-> ListenerState(l), ok |-> FALSE,
                            ret |-> "None", reported |-> TRUE]]
    ELSE
        [l EXCEPT !.hotkeys = IF @ = "started" THEN "stopped" ELSE @,
                  !.active = IF l.hotkeys = "started" THEN @ - 1 ELSE @,
                  !.is_running = IF v = "gui" THEN @ ELSE FALSE,
                  !.invoked = FALSE,
                  !.last = [op |-> "stop", was |-> ListenerState(l), ok |-> TRUE,
                            ret |-> "None", reported |-> FALSE]]

\* HotkeyManager.stop_hotkey_listener: "if self.hotkeys: self.hotkeys.stop()",
\* "self.is_running = False"
StopHotkeyListener(v, l) ==
    [l EXCEPT !.hotkeys = IF @ = "started" THEN "stopped" ELSE @,
              !.active = IF l.hotkeys = "started" THEN @ - 1 ELSE @,
              !.is_running = IF v = "gui" THEN @ ELSE FALSE,
              !.invoked = FALSE,
              !.last = [op |-> "stop", was |-> ListenerState(l), ok |-> TRUE,
                        ret |-> "None", reported |-> FALSE]]

InitListener ==
    /\ selftest = NoSelfTest
    /\ platform \in Platforms
    /\ InitCommon
    /\ clipboard = <<>>
    /\ lsn \in {[NoListener EXCEPT !.pynput = p] : p \in PynputChoices(variant)}

StartListener(fail, monitorOk) ==
    /\ lsn.starts < MaxStarts
    /\ lsn' = StartHotkeyListener(variant, platform, lsn, fail, monitorOk)
    /\ UNCHANGED <<config, pipeline, order, hktest, lastClip, lastShow, selftest>>

StopListener ==
    /\ lsn' = StopHotkeyListener(variant, lsn)
    /\ UNCHANGED <<config, pipeline, order, hktest, lastClip, lastShow, selftest>>

\* a listening context detects one of its key combinations (the monitor
\* thread reads a line of its script) and invokes the bound handler
ListenerEvent ==
    /\ HookActive(lsn)
    /\ lsn' = [lsn EXCEPT !.invoked = TRUE]
    /\ UNCHANGED <<config, pipeline, order, hktest, lastClip, lastShow, selftest>>

NextListener ==
    \/ \E fail \in StartFailures(variant), monitorOk \in BOOLEAN : StartListener(fail, monitorOk)
    \/ StopListener
    \/ ListenerEvent

SpecListener ==
    InitListener /\ [][NextListener]_vars

(***************************************************************************)
(* main() of the console variants when the hotkey hook cannot be           *)
(* established: start_hotkey_listener fails, main goes on to its command   *)
(* loop, and with no listening context there are no key events.            *)
(***************************************************************************)
InitDegraded ==
    /\ selftest = NoSelfTest
    /\ platform \in Platforms
    /\ InitCommon
    /\ variant # "gui"
    /\ clipboard = <<>>
    /\ lsn \in {[NoListener EXCEPT !.pynput = p] : p \in PynputChoices(variant)}

\* main: hotkey_manager.start_hotkey_listener(), in a run where it fails
MainStartFails(fail, monitorOk) ==
    /\ lsn.last.op = "none"
    /\ StartListener(fail, monitorOk)
    /\ ~lsn'.last.ok

\* main: the command loop is entered once start_hotkey_listener has returned
MainConsole(t) ==
    /\ lsn.last.op = "start"
    /\ ConsoleProcess(t)

NextDegraded ==
    \/ \E fail \in StartFailures(variant), monitorOk \in BOOLEAN : MainStartFails(fail, monitorOk)
    \/ \E t \in Texts : MainConsole(t)
    \/ PtCheck("main")
    \/ PtAdmit("main")
    \/ \E i \in Trigs, loopOk \in BOOLEAN, backend \in {"ok", "fails"} :
         WorkerRun(i, loopOk, backend)
    \/ \E i \in Trigs : WorkerFinally(i)

SpecDegraded ==
    InitDegraded /\ [][NextDegraded]_vars

(***************************************************************************)
(* main()'s command loop with its "test" command                           *)
(***************************************************************************)
\* test_text of the "test" command
TestText ==
    <<"a">>

InitConsole ==
    /\ selftest = NoSelfTest
    /\ lsn = NoListener
    /\ platform \in Platforms
    /\ InitCommon
    /\ variant # "gui"
    /\ clipboard \in Texts

\* "test": the clipboard content is processed when it is truthy (no strip);
\* otherwise final puts test_text on the clipboard and processes that, and
\* minimal only prints
ConsoleTest(env, wenv) ==
    /\ variant # "gui"
    /\ thread["main"].pc = "idle"
    /\ nextTrig < MaxTriggers
    /\ LET i == nextTrig + 1
           c == GetClipboardText(variant, platform, env, clipboard).value
           w == SetClipboardText(variant, platform, wenv, TestText, clipboard)
       IN IF c # <<>>
          THEN /\ req' = [req EXCEPT ![i] = [NoReq EXCEPT !.src = "console_test", !.text = c]]
               /\ thread' = [thread EXCEPT !["main"] = [pc |-> "pt_check", cur |-> i]]
               /\ nextTrig' = i
               /\ UNCHANGED clipboard
          ELSE IF variant = "final"
          THEN /\ clipboard' = w.clip
               /\ req' = [req EXCEPT ![i] = [NoReq EXCEPT !.src = "console_test",
                                                          !.text = TestText]]
               /\ thread' = [thread EXCEPT !["main"] = [pc |-> "pt_check", cur |-> i]]
               /\ nextTrig' = i
          ELSE UNCHANGED <<clipboard, req, thread, nextTrig>>
    /\ UNCHANGED <<config, copyPending, is_processing, pending, cap, side>>

NextConsole ==
    \/ \E env, wenv \in ClipEnvs(variant, platform) : ConsoleTest(env, wenv)
    \/ \E t \in Texts : ConsoleProcess(t)
    \/ PtCheck("main")
    \/ PtAdmit("main")
    \/ \E i \in Trigs, loopOk \in BOOLEAN, backend \in {"ok", "fails"} :
         WorkerRun(i, loopOk, backend)
    \/ \E i \in Trigs : WorkerFinally(i)

SpecConsole ==
    InitConsole /\ [][NextConsole]_vars

(***************************************************************************)
(* test_hotkeys.py                                                         *)
(***************************************************************************)
\* each hotkey of the test script is pressed at most this often
MaxKeys ==
    3

\* what pynput makes of a hotkey callback's return value is not part of this
\* repository: either the listener goes on or it stops
EscapeOutcomes ==
    {"listening", "stopped"}

\* "while True:": the loop's condition never tells it to end
WaitLoopGoesOn(t) ==
    TRUE

InitTest ==
    /\ selftest = NoSelfTest
    /\ lsn = NoListener
    /\ platform = "linux"
    /\ clipboard = <<>>
    /\ InitCommon
    /\ variant = "final"
    /\ hasController

\* main: "with GlobalHotKeys(hotkeys):" is entered, or raises
TestEnter(ok) ==
    /\ hktest.main = "start"
    /\ hktest' = IF ok
                 THEN [hktest EXCEPT !.main = "waiting", !.listener = "listening",
                                     !.out = Append(@, "active")]
                 ELSE [hktest EXCEPT !.main = "returned", !.end = "error",
                                     !.out = Append(@, "error")]
    /\ UNCHANGED <<config, pipeline, lastClip, lastShow, selftest, lsn, order>>

\* on_ctrl_f9
TestCtrlF9 ==
    /\ hktest.listener = "listening"
    /\ hktest.f9 < MaxKeys
    /\ hktest' = [hktest EXCEPT !.f9 = @ + 1, !.out = Append(@, "detected")]
    /\ UNCHANGED <<config, pipeline, lastClip, lastShow, selftest, lsn, order>>

\* on_escape: print, return False
TestEscape(outcome) ==
    /\ hktest.listener = "listening"
    /\ hktest.esc < MaxKeys
    /\ hktest' = [hktest EXCEPT !.esc = @ + 1, !.listener = outcome,
                                !.out = Append(@, "exiting")]
    /\ UNCHANGED <<config, pipeline, lastClip, lastShow, selftest, lsn, order>>

\* main: "while True:" is evaluated and time.sleep(0.1) is called
TestLoop ==
    /\ hktest.main = "waiting"
    /\ WaitLoopGoesOn(hktest)
    /\ hktest' = [hktest EXCEPT !.main = "sleeping"]
    /\ UNCHANGED <<config, pipeline, lastClip, lastShow, selftest, lsn, order>>

\* main: time.sleep(0.1) returns and the loop goes round
TestSleep ==
    /\ hktest.main = "sleeping"
    /\ hktest' = [hktest EXCEPT !.main = "waiting"]
    /\ UNCHANGED <<config, pipeline, lastClip, lastShow, selftest, lsn, order>>

\* Ctrl+C at the terminal: KeyboardInterrupt in the wait loop; the with block
\* stops the listener, the except clause prints, main returns
TestInterrupt ==
    /\ hktest.main \in {"waiting", "sleeping"}
    /\ hktest' = [hktest EXCEPT !.main = "returned", !.listener = "stopped",
                                !.end = "interrupted", !.out = Append(@, "interrupted")]
    /\ UNCHANGED <<config, pipeline, lastClip, lastShow, selftest, lsn, order>>

NextTest ==
    \/ \E ok \in BOOLEAN : TestEnter(ok)
    \/ TestCtrlF9
    \/ \E o \in EscapeOutcomes : TestEscape(o)
    \/ TestLoop
    \/ TestSleep
    \/ TestInterrupt

SpecTest ==
    InitTest /\ [][NextTest]_vars

\* the main thread is scheduled; nobody is obliged to press Ctrl+C
SpecTestFair ==
    /\ SpecTest
    /\ WF_vars(\E ok \in BOOLEAN : TestEnter(ok))
    /\ WF_vars(TestLoop)
    /\ WF_vars(TestSleep)

(***************************************************************************)
(* Properties                                                              *)
(***************************************************************************)
Active(i) ==
    req[i].wpc \in {"running", "presented"}

\* C1: for every interleaving of process_text calls from different threads, at
\* most one processing session is active at any time.
C1_SingleFlight ==
    Cardinality({i \in Trigs : Active(i)}) <= 1

C3_PresentedOnceAndCleared ==
    /\ [](\A i \in Trigs :
            /\ req[i].wpc \in {"presented", "done"} => Len(req[i].shown) = 1
            /\ req[i].wpc \in {"none", "running"} => req[i].shown = <<>>)
    /\ [][\A i \in Trigs :
            (req[i].wpc # "done" /\ req'[i].wpc = "done") => ~is_processing']_vars

\* one session ended after a successful backend call and another after a failure
C3_Witness ==
    \E i, j \in Trigs :
        /\ req[i].wpc = "done" /\ req[i].shown[1].kind = "response"
        /\ req[j].wpc = "done" /\ req[j].shown[1].kind \in {"backend_error", "worker_error"}
        /\ ~is_processing

C5_BurstSecondRejected ==
    \A i \in Trigs :
        (/\ req[i].burstOf # 0
         /\ req[req[i].burstOf].outcome = "admitted"
         /\ req[i].outcome \in {"admitted", "rejected"})
        => req[i].outcome = "rejected"

\* C6: the text resolved by handle_ctrl_f9 is `after` when it differs from
\* `before` and is non-empty, and `before` otherwise.
C6_SelectionResolution ==
    cap.after # None =>
        cap.resolved = IF cap.after # cap.before /\ cap.after # <<>>
                       THEN cap.after ELSE cap.before

\* C7: a capture whose resolved text is blank is never dispatched and the
\* "nothing to process" notice is shown; a capture with `before` and `after`
\* both blank is such a capture.
C7_EmptyCaptureNotDispatched ==
    /\ (cap.resolved # None /\ ~NonBlank(cap.resolved)) =>
           /\ req[cap.trig].outcome = "nothing"
           /\ req[cap.trig].notice = "nothing"
           /\ req[cap.trig].wpc = "none"
           /\ req[cap.trig].text = None
    /\ (cap.after # None /\ ~NonBlank(cap.before) /\ ~NonBlank(cap.after)) =>
           (cap.resolved # None /\ ~NonBlank(cap.resolved))

\* both clipboard reads gave whitespace only, and the notice went out
C7_Witness ==
    /\ cap.before = <<" ">>
    /\ cap.after = <<" ">>
    /\ req[cap.trig].notice = "nothing"

\* C8: if synthesizing the copy keystroke fails (no controller, or a press or
\* release raises), the capture resolves to `before` and the handler does not
\* end in its error path.
C8_SynthFailureUsesBefore ==
    cap.synth \in {"unavailable", "raised"} =>
        /\ cap.resolved = cap.before
        /\ req[cap.trig].outcome # "error"

Backends(v) ==
    IF v = "gui" THEN {"lib"} ELSE IF v = "final" THEN {"lib", "cmd1", "cmd2"}
    ELSE {"cmd1", "cmd2"}

AllBackendsFail(v, env) ==
    \A b \in Backends(v) : env[b] # "ok"

\* C9: get_clipboard_text and set_clipboard_text never raise: the first returns
\* a text (the empty text when every backend fails), the second a boolean
\* (False when every backend fails).
C9_ClipboardNeverRaises ==
    /\ ~lastClip.raised
    /\ lastClip.op = "read" =>
           /\ lastClip.value \in ClipTexts
           /\ AllBackendsFail(variant, lastClip.env) => lastClip.value = <<>>
    /\ lastClip.op = "write" =>
           /\ lastClip.ok \in BOOLEAN
           /\ AllBackendsFail(variant, lastClip.env) => ~lastClip.ok

\* a read in which pyperclip and the OS command both raised, on a non-empty clipboard
C9_Witness ==
    /\ lastClip.op = "read"
    /\ lastClip.env.lib # "ok"
    /\ lastClip.env.cmd1 = "raises"
    /\ Len(lastClip.tried) >= 1
    /\ clipboard # <<>>
    /\ lastClip.value = <<>>

OsCommands ==
    {"pbpaste", "pbcopy", "powershell", "clip", "xclip", "xsel"}

\* C10: whenever the primary backend (pyperclip) raises on a read or a write,
\* the OS-command backend of the platform is attempted before the call gives up.
C10_FallbackAttempted ==
    (lastClip.op # "none" /\ lastClip.env.lib = "raises") =>
        \E k \in 1..Len(lastClip.tried) : lastClip.tried[k] \in OsCommands

InTried(name) ==
    \E k \in 1..Len(lastClip.tried) : lastClip.tried[k] = name

\* C11: on Linux, whenever xclip was attempted and did not succeed (missing,
\* raised, or exited unsuccessfully), xsel is attempted before the read or the
\* write gives up.
C11_XselAfterXclip ==
    (lastClip.op # "none" /\ platform = "linux" /\ InTried("xclip")
        /\ lastClip.env.cmd1 # "ok") => InTried("xsel")

\* the outcome of the backend named in `tried`
BackendOutcome(name, env) ==
    IF name = "pyperclip" THEN env.lib
    ELSE IF name = "xsel" THEN env.cmd2
    ELSE env.cmd1

\* the last backend the call ran did its work
Delivered(c) ==
    c.tried # <<>> /\ BackendOutcome(Last(c.tried), c.env) = "ok"

\* C12: if set_clipboard_text(t) succeeded and nothing has written the
\* clipboard since, a get_clipboard_text() whose backend works returns exactly
\* t, leading and trailing whitespace included.
C12_RoundTrip ==
    (lastClip.op = "read" /\ lastClip.written # None /\ Delivered(lastClip)) =>
        lastClip.value = lastClip.written

\* C13: whenever the presenter's primary channel (the OS notification, the
\* popup window) fails, show_response does not raise and has written a console
\* line that carries text of the response.
C13_PresentationFallback ==
    (lastShow.op = "show" /\ ~lastShow.delivered) =>
        /\ ~lastShow.raised
        /\ \E k \in 1..Len(lastShow.console) : lastShow.console[k].chars > 0

\* the backend call of session i failed: process_text_async caught an
\* exception, or run_async raised before it had a response
BackendFailed(i) ==
    /\ req[i].wpc \in {"presented", "done"}
    /\ req[i].result.kind \notin {"response", "no_text"}

\* C14: when the backend call of a session fails or raises, an error-derived
\* message is what the presenter is called with (once, through the same call
\* as a success), and the step that ends the session clears is_processing.
C14_BackendFailureReported ==
    /\ [](\A i \in Trigs :
            BackendFailed(i) =>
                /\ Len(req[i].shown) = 1
                /\ req[i].shown[1].kind \in {"backend_error", "worker_error"})
    /\ [][\A i \in Trigs :
            (BackendFailed(i) /\ req[i].wpc # "done" /\ req'[i].wpc = "done")
                => ~is_processing']_vars

\* a session whose backend call failed has ended with the error message shown
C14_Witness ==
    \E i \in Trigs :
        /\ req[i].wpc = "done"
        /\ req[i].result.kind = "backend_error"
        /\ req[i].shown = <<[kind |-> "backend_error", of |-> <<>>]>>
        /\ ~is_processing

\* C15: process_text returns True to the caller of an accepted request and
\* False to the caller of a rejected one.
C15_ReturnTellsOutcome ==
    \A i \in Trigs :
        /\ req[i].outcome = "admitted" => req[i].ret = "True"
        /\ req[i].outcome = "rejected" => req[i].ret = "False"

\* C16: every rejected request has been reported to the user with the "busy"
\* notice, in every variant.
C16_RejectedNoticed ==
    \A i \in Trigs :
        req[i].outcome = "rejected" => req[i].notice = "busy"

\* C17: the backend call of an accepted request runs in a worker, not in the
\* caller: no thread is inside process_text for a request whose worker exists,
\* so the hotkey thread is free for the next key event while the session is in
\* flight; and a request is rejected while a session is still in flight, not
\* held back until that session has ended.
C17_AdmitDoesNotWait ==
    /\ [](\A t \in Threads :
            thread[t].cur # 0 => req[thread[t].cur].wpc = "none")
    /\ [][\A j \in Trigs :
            (req[j].outcome # "rejected" /\ req'[j].outcome = "rejected") =>
                \E i \in Trigs \ {j} : Active(i) /\ req'[i].wpc = req[i].wpc]_vars

\* while the session of one Ctrl+F9 is still waiting for the backend, the next
\* Ctrl+F9 has been detected, handled and rejected
C17_Witness ==
    \E i, j \in Trigs :
        /\ i < j
        /\ req[i].src = "ctrl_f9" /\ req[i].wpc = "running"
        /\ req[j].src = "ctrl_f9" /\ req[j].outcome = "rejected"
        /\ thread["hotkey"] = IdleThread

Bindings ==
    {"ctrl_f9", "quick"}

\* C18: the single-flight guard is shared by the hotkey bindings: while a
\* session admitted from one binding is active the guard is set, so that a
\* trigger of the other binding is rejected.
C18_GuardSharedByBindings ==
    \A i \in Trigs :
        (Active(i) /\ req[i].src \in Bindings) => is_processing

SelfTestActive ==
    selftest.wpc \in {"running", "presented"}

\* C19: at most one session is active at any time in the whole process,
\* counting the sessions of every AIAssistant instance (the self-test's and
\* the one main() creates).
C19_SystemWideSingleFlight ==
    Cardinality({i \in Trigs : Active(i)}) + (IF SelfTestActive THEN 1 ELSE 0) <= 1

\* C20: in the variants that keep is_running, a start_hotkey_listener call on
\* a Stopped listener that establishes a listening context leaves is_running
\* True and the hook active; one that does not leaves is_running False and no
\* hook active, and has reported the cause; a stop_hotkey_listener call on a
\* Running listener leaves is_running False and no hook active.
C20_ListenerLifecycle ==
    variant # "gui" =>
        /\ (lsn.last.op = "start" /\ lsn.last.was = "Stopped" /\ lsn.last.ok) =>
               (lsn.is_running /\ HookActive(lsn))
        /\ (lsn.last.op = "start" /\ lsn.last.was = "Stopped" /\ ~lsn.last.ok) =>
               (~lsn.is_running /\ ~HookActive(lsn) /\ lsn.last.reported)
        /\ (lsn.last.op = "stop" /\ lsn.last.was = "Running") =>
               (~lsn.is_running /\ ~HookActive(lsn))

\* C21: stop_hotkey_listener on a listener that is Stopped (never started, its
\* start failed, or already stopped) changes nothing of the listener, reports
\* no error and leaves it Stopped.
C21_StopWhenStoppedIsNoOp ==
    /\ [](lsn.last.op = "stop" /\ lsn.last.was = "Stopped" =>
            /\ ListenerState(lsn) = "Stopped"
            /\ lsn.last.ok
            /\ ~lsn.last.reported)
    /\ [][(lsn'.last.op = "stop" /\ lsn'.last.was = "Stopped" /\ lsn'.starts = lsn.starts) =>
            lsn' = [lsn EXCEPT !.last = lsn'.last]]_vars

\* stop has been called after a start that failed in hotkeys.start()
C21_Witness ==
    /\ lsn.last.op = "stop"
    /\ lsn.last.was = "Stopped"
    /\ lsn.hotkeys = "unstarted"
    /\ lsn.starts >= 1

\* C22: at most one listening context is active for a HotkeyManager, after
\* any sequence of start_hotkey_listener and stop_hotkey_listener calls.
C22_AtMostOneListener ==
    lsn.active + lsn.monitors <= 1

\* C23: after stop_hotkey_listener has returned no bound handler is invoked
\* until the listener is started again, however the listener was started.
C23_NoHandlerAfterStop ==
    lsn.last.op = "stop" => ~lsn.invoked

\* C24: when start_hotkey_listener cannot establish the hook, the call returns
\* (final: False) with the cause reported and the listener Stopped, it leaves
\* the dispatcher untouched, and in the command loop that follows a submitted
\* text is admitted whenever no session is active.
C24_DegradedModeWorks ==
    /\ []((lsn.last.op = "start" /\ ~lsn.last.ok) =>
            /\ ListenerState(lsn) = "Stopped"
            /\ lsn.last.reported
            /\ lsn.last.ret = StartReturn(variant, FALSE)
            /\ \A i \in Trigs :
                  req[i].outcome = "rejected" => \E j \in Trigs \ {i} : req[j].outcome = "admitted")
    /\ [][lsn' # lsn => (is_processing' = is_processing /\ req' = req /\ thread' = thread)]_vars

\* in hotkey-less mode a text typed on the console has been processed to its end
C24_Witness ==
    /\ lsn.last.op = "start"
    /\ ~lsn.last.ok
    /\ ~HookActive(lsn)
    /\ \E i \in Trigs :
          /\ req[i].src = "console"
          /\ req[i].wpc = "done"
          /\ req[i].shown = <<[kind |-> "response", of |-> req[i].text]>>
    /\ ~is_processing

\* the position of session i in a sequence of sessions (0 when absent)
Pos(q, i) ==
    IF \E k \in 1..Len(q) : q[k] = i
    THEN CHOOSE k \in 1..Len(q) : q[k] = i
    ELSE 0

\* C25: results reach the presenter in the order in which their sessions'
\* backend calls completed.
C25_PresentedInCompletionOrder ==
    \A a, b \in 1..Len(order.presented) :
        a < b => Pos(order.completed, order.presented[a]) < Pos(order.completed, order.presented[b])

C27_Truncation ==
    (lastShow.op = "show" /\ variant # "gui") =>
        /\ DisplayLen(lastShow.handed) <= NotifyLimit
        /\ lastShow.handed = IF lastShow.n > NotifyLimit
                             THEN [chars |-> NotifyKeep, ellipsis |-> TRUE]
                             ELSE [chars |-> lastShow.n, ellipsis |-> FALSE]
        /\ \E k \in 1..Len(lastShow.console) : lastShow.console[k].chars = lastShow.n

\* the synthesized key events among the steps of a capture
KeyEvents(ev) ==
    SelectSeq(ev, LAMBDA e : e \in {"press_ctrl", "press_c", "release_c", "release_ctrl"})

\* C28: in a capture the first clipboard read comes before any synthesized
\* key event; the key events are press Ctrl, press c, release c, release
\* Ctrl, in this order (a raising call ends the sequence); the second read
\* comes only after the release of Ctrl and the wait.
C28_CaptureStepOrder ==
    cap.trig # 0 =>
        /\ cap.before # None /\ cap.events[1] = "read"
        /\ \A k \in 1..Len(cap.events) : cap.events[k] = CaptureSteps[k]
        /\ KeyEvents(cap.events) = SubSeq(CopyChord, 1, Len(KeyEvents(cap.events)))
        /\ cap.synth = "ok" => KeyEvents(cap.events) = CopyChord
        /\ cap.after # None =>
              /\ cap.events = CaptureSteps
              /\ Pos(cap.events, "release_ctrl") < Pos(cap.events, "sleep")
              /\ Pos(cap.events, "sleep") < Len(cap.events)

C28_Witness ==
    /\ cap.after # None
    /\ cap.events = CaptureSteps

\* C29: no exception propagates out of run_async, whichever of its steps
\* fails (creating the event loop, the backend coroutine, the presenter
\* call, closing the loop); every failure ends as a logged event or a
\* message shown to the user.
C29_RunAsyncContainsFailures ==
    \A i \in Trigs :
        req[i].wpc = "done" =>
            /\ ~req[i].escaped
            /\ req[i].shown # <<>>

\* a step of handle_quick_assist for trigger i
QuickStep(i) ==
    /\ req[i].src = "quick"
    /\ req[i].read = None
    /\ req'[i].read # None

\* C30: the quick-assist handler works on the clipboard only: it synthesizes
\* no key event; it dispatches the clipboard text it read, behind the fixed
\* prefix, exactly when that text is non-empty once trimmed; otherwise it
\* shows the "clipboard is empty" notice and dispatches nothing.
C30_QuickAssistClipboardOnly ==
    /\ [](\A i \in Trigs :
            (req[i].src = "quick" /\ req[i].read # None) =>
                IF Strip(req[i].read) # <<>>
                THEN /\ req[i].text # None
                     /\ Head(req[i].text) = "Q" /\ Tail(req[i].text) = req[i].read
                     /\ req[i].notice # "clipboard_empty"
                ELSE /\ req[i].text = None
                     /\ req[i].notice = "clipboard_empty"
                     /\ req[i].wpc = "none")
    /\ [][\A i \in Trigs :
            QuickStep(i) =>
                /\ req'[i].read \in Reads
                /\ cap' = cap /\ copyPending' = copyPending /\ clipboard' = clipboard]_vars

C30_Witness ==
    \E i, j \in Trigs :
        /\ req[i].src = "quick" /\ req[i].wpc = "done" /\ Len(req[i].text) > 1
        /\ req[j].src = "quick" /\ req[j].notice = "clipboard_empty"

\* C31: in the hotkey test script pressing Escape ends the test: once
\* on_escape has run, the listener stops and main leaves its wait loop and
\* returns.
C31_EscapeEndsTest ==
    (hktest.esc > 0) ~> (hktest.listener = "stopped" /\ hktest.main = "returned")

\* C32: is_processing is True only while a worker of the admitted session
\* exists that will clear it: when the worker thread cannot be created or
\* started after process_text has set the flag, the flag does not stay True.
C32_FlagHasWorker ==
    is_processing => \E i \in Trigs : Active(i)

\* C33: the flag is cleared only after the worker has handed the session's
\* result to the presenter: is_processing is never False while an admitted
\* session's result has not yet been handed over, and the step that clears
\* the flag is taken by a worker whose result has been handed over.
C33_FlagHeldUntilPresented ==
    /\ [](\A i \in Trigs : req[i].wpc = "running" => is_processing)
    /\ [][(is_processing /\ ~is_processing') =>
            \E i \in Trigs : /\ req[i].wpc = "presented" /\ req[i].shown # <<>>
                             /\ req'[i].wpc = "done"]_vars

\* how often the step e occurs among the steps ev
Count(ev, e) ==
    Len(SelectSeq(ev, LAMBDA x : x = e))

\* the synthesized keys that the steps ev leave pressed
HeldKeys(ev) ==
    {k \in {"ctrl", "c"} :
        LET press == IF k = "ctrl" THEN "press_ctrl" ELSE "press_c"
            release == IF k = "ctrl" THEN "release_ctrl" ELSE "release_c"
        IN Count(ev, press) > Count(ev, release)}

\* C34: once the synthesis step of a capture is over, no synthesized key is
\* left pressed: every key handle_ctrl_f9 has pressed is released, also when
\* one of the press or release calls raises.
C34_NoKeyLeftPressed ==
    (cap.trig # 0 /\ cap.synth # "none") => HeldKeys(cap.events) = {}

\* C35: HotkeyManager.is_running is True exactly when a hotkey listening
\* context is active (the pynput listener or, in the minimal variant, the
\* Linux monitor thread), after any sequence of start, failed start and stop.
C35_IsRunningIffListening ==
    variant # "gui" => (lsn.is_running <=> HookActive(lsn))

\* the fixed message "No text provided"
NoTextMessage ==
    [kind |-> "no_text", of |-> <<>>]

\* an admitted session whose text is empty once trimmed
BlankSession(i) ==
    /\ req[i].outcome = "admitted"
    /\ req[i].text # None
    /\ Strip(req[i].text) = <<>>

====
